---- MODULE Spec2Model ----
(***************************************************************************)
(* Model of anagram_kata/Source.cpp: the anagram key computation           *)
(* (compute_anagram), the dictionary std::map<anagram_key, std::set<text>> *)
(* with insert_into_anagram_dictionary and fetch_matching_anagrams, and    *)
(* load_dictionary reading whitespace-separated words from a stream.       *)
(*                                                                         *)
(* A text is a sequence of character codes (8-bit, ASCII range).           *)
(* A std::set<text> is a strictly ascending sequence of texts.             *)
(* A std::map is a function whose DOMAIN is the set of keys present.       *)
(* A std::optional is a record with has_value and, when set, value.        *)
(***************************************************************************)
EXTENDS Integers, Sequences, FiniteSets, TLC

\* Longest text handed to compute_anagram in SpecKey.
MaxLen == 3

\* Most distinct texts ever passed to insert_into_anagram_dictionary in Spec.
MaxTexts == 4

\* Longest stream content handed to load_dictionary in SpecLoad.
MaxStreamLen == 4

\* '#', '1', 'B', 'a', 'b'
Alphabet == {35, 49, 66, 97, 98}

\* '\n', ' ', 'a', 'b'
StreamAlphabet == {10, 32, 97, 98}

TextsOver(chars, n) == UNION {[1..k -> chars] : k \in 0..n}

Texts == TextsOver(Alphabet, MaxLen)

Streams == TextsOver(StreamAlphabet, MaxStreamLen)

Range(s) == {s[i] : i \in 1..Len(s)}

-----------------------------------------------------------------------------
(* The texts main and load_dictionary hand to the dictionary *)

\* "bob"
bob == <<98, 111, 98>>

\* "god"
god == <<103, 111, 100>>

\* "act"
act == <<97, 99, 116>>

\* "dog"
dog == <<100, 111, 103>>

\* "Kayak"
Kayak == <<75, 97, 121, 97, 107>>

\* "kayak"
kayak == <<107, 97, 121, 97, 107>>

\* "C\tA\tT\t"
C_A_T == <<67, 9, 65, 9, 84, 9>>

\* "***Cat***"
starCat == <<42, 42, 42, 67, 97, 116, 42, 42, 42>>

\* "###"
hashes == <<35, 35, 35>>

\* "KAYAK"
KAYAK == <<75, 65, 89, 65, 75>>

\* "cat"
cat == <<99, 97, 116>>

\* "GOD"
GOD == <<71, 79, 68>>

\* "unknown"
unknown == <<117, 110, 107, 110, 111, 119, 110>>

\* The arguments of main's insert and report calls and the seed words
Words == {bob, god, act, dog, Kayak, kayak, C_A_T, starCat, hashes,
          KAYAK, cat, GOD, unknown}

\* "bob\ngod\nact\ndog", the content load_dictionary(dictionary) writes
seed_content == bob \o <<10>> \o god \o <<10>> \o act \o <<10>> \o dog

VARIABLES
    dictionary,     \* main's anagram_dictionary
    history,        \* every text passed to insert_into_anagram_dictionary so far
    inserted,       \* the value the last insert_into_anagram_dictionary returned
    matches,        \* the optional<text_set> the last fetch_matching_anagrams returned
    last,           \* the last call made
    input_stream,   \* the stream load_dictionary reads
    text_a, text_b, \* arguments of compute_anagram
    key_a, key_b,   \* compute_anagram(text_a), compute_anagram(text_b)
    key_of_key      \* compute_anagram applied to the key in key_a

vars == <<dictionary, history, inserted, matches, last, input_stream,
          text_a, text_b, key_a, key_b, key_of_key>>

-----------------------------------------------------------------------------
(* std::optional *)

nullopt == [has_value |-> FALSE]

optional(v) == [has_value |-> TRUE, value |-> v]

-----------------------------------------------------------------------------
(* <cctype> in the "C" locale *)

isalnum(c) == c \in 48..57 \/ c \in 65..90 \/ c \in 97..122

\* tolower that flips the case bit of every letter
tolower_toggle(c) ==
    IF c \in 65..90 THEN c + 32 ELSE IF c \in 97..122 THEN c - 32 ELSE c

tolower(c) == IF c \in 65..90 THEN c + 32 ELSE c

isspace(c) == c \in 9..13 \/ c = 32

-----------------------------------------------------------------------------
(* compute_anagram *)

\* std::ranges::copy_if(text, back_inserter(key), isalnum)
copy_if(text) == SelectSeq(text, isalnum)

\* std::transform(begin(key), end(key), begin(key), tolower)
transform(key) == [i \in 1..Len(key) |-> tolower(key[i])]

\* compute_anagram with the sort left out
sort_skipped(key) == key

\* std::ranges::sort(key): ascending by character code
RECURSIVE sort(_)
sort(key) ==
    IF Len(key) <= 1 THEN key
    ELSE LET first == Head(key)
             rest == sort(Tail(key))
         IN SelectSeq(rest, LAMBDA c : c < first) \o <<first>>
            \o SelectSeq(rest, LAMBDA c : c >= first)

compute_anagram(text) ==
    LET key == copy_if(text)
    IN IF Len(key) = 0 THEN nullopt
       ELSE optional(sort(transform(key)))

-----------------------------------------------------------------------------
(* std::set<text> and std::map<anagram_key, text_set> *)

\* std::string operator< : lexicographic by character code
RECURSIVE text_less(_, _)
text_less(a, b) ==
    IF Len(b) = 0 THEN FALSE
    ELSE IF Len(a) = 0 THEN TRUE
    ELSE IF Head(a) < Head(b) THEN TRUE
    ELSE IF Head(b) < Head(a) THEN FALSE
    ELSE text_less(Tail(a), Tail(b))

empty_set == <<>>

\* std::multiset<text>::insert: keeps equal entries
multiset_insert(set, text) ==
    [set |-> SelectSeq(set, LAMBDA e : ~text_less(text, e)) \o <<text>>
             \o SelectSeq(set, LAMBDA e : text_less(text, e)),
     second |-> TRUE]

\* text_set::insert(text): the set after the call and pair::second
set_insert(set, text) ==
    IF \E i \in 1..Len(set) : set[i] = text
    THEN [set |-> set, second |-> FALSE]
    ELSE [set |-> SelectSeq(set, LAMBDA e : text_less(e, text)) \o <<text>>
                  \o SelectSeq(set, LAMBDA e : text_less(text, e)),
          second |-> TRUE]

empty_dictionary == [k \in {} |-> empty_set]

\* dictionary[key] = {} : the group of key is emptied before the insert
map_subscript_reset(d, key) ==
    [k \in DOMAIN d \cup {key} |-> IF k = key THEN empty_set ELSE d[k]]

\* anagram_dictionary::operator[](key): creates an empty group for a missing key
map_subscript(d, key) ==
    IF key \in DOMAIN d THEN d ELSE d @@ (key :> empty_set)

\* anagram_dictionary::find(key) != end(dictionary)
map_find(d, key) == key \in DOMAIN d

-----------------------------------------------------------------------------
(* insert_into_anagram_dictionary: the dictionary after the call and the   *)
(* value returned                                                          *)

\* dictionary[compute_anagram(text)].insert(text) with no test of the key: the
\* text with no alphanumeric character is stored under the empty key
insert_without_key_check(d, text) ==
    LET key == copy_if(text)
        slot == map_subscript(d, sort(transform(key)))
        r == set_insert(slot[sort(transform(key))], text)
    IN [dictionary |-> [slot EXCEPT ![sort(transform(key))] = r.set],
        inserted |-> r.second]

\* auto group = dictionary[key]; group.insert(text): the entry goes to a copy
insert_into_copy(d, text) ==
    LET key == compute_anagram(text)
    IN IF ~key.has_value
       THEN [dictionary |-> d, inserted |-> FALSE]
       ELSE LET slot == map_subscript(d, key.value)
                r == set_insert(slot[key.value], text)
            IN [dictionary |-> slot, inserted |-> r.second]

insert_into_anagram_dictionary(d, text) ==
    LET key == compute_anagram(text)
    IN IF ~key.has_value
       THEN [dictionary |-> d, inserted |-> FALSE]
       ELSE LET slot == map_subscript(d, key.value)
                r == set_insert(slot[key.value], text)
            IN [dictionary |-> [slot EXCEPT ![key.value] = r.set],
                inserted |-> r.second]

-----------------------------------------------------------------------------
(* fetch_matching_anagrams: the optional<text_set> returned; the           *)
(* dictionary is taken by const reference                                  *)

\* dictionary.find(text): the lookup by the text itself, not by its key
fetch_by_text(d, text) ==
    IF map_find(d, text) /\ Len(d[text]) # 0 THEN optional(d[text]) ELSE nullopt

fetch_matching_anagrams(d, text) ==
    LET key == compute_anagram(text)
    IN IF ~key.has_value THEN nullopt
       ELSE IF map_find(d, key.value) /\ Len(d[key.value]) # 0
            THEN optional(d[key.value])
            ELSE nullopt

-----------------------------------------------------------------------------
(* std::istream: the content, the position of the next character (from 1), *)
(* and the state bits                                                      *)

stringstream(content) ==
    [content |-> content, pos |-> 1, eofbit |-> FALSE, failbit |-> FALSE]

good(s) == ~s.eofbit /\ ~s.failbit

eof(s) == s.eofbit

\* The first position from p on that holds no whitespace, or the end
skip_whitespace(content, p) ==
    CHOOSE i \in p..(Len(content) + 1) :
        /\ i = Len(content) + 1 \/ ~isspace(content[i])
        /\ \A j \in p..(i - 1) : isspace(content[j])

\* The first position from p on that holds whitespace, or the end
end_of_word(content, p) ==
    CHOOSE i \in p..(Len(content) + 1) :
        /\ i = Len(content) + 1 \/ isspace(content[i])
        /\ \A j \in p..(i - 1) : ~isspace(content[j])

\* input_stream >> text on a good stream: skips leading whitespace, then
\* extracts up to the next whitespace or the end of the content; reaching the
\* end sets eofbit, extracting no character sets failbit
extract(s) ==
    LET start == skip_whitespace(s.content, s.pos)
        stop == end_of_word(s.content, start)
    IN IF start > Len(s.content)
       THEN [stream |-> [s EXCEPT !.pos = start, !.eofbit = TRUE, !.failbit = TRUE],
             text |-> <<>>]
       ELSE [stream |-> [s EXCEPT !.pos = stop, !.eofbit = (stop > Len(s.content))],
             text |-> SubSeq(s.content, start, stop - 1)]

-----------------------------------------------------------------------------
(* load_dictionary(dictionary, input_stream): the dictionary and the       *)
(* stream after the loop, and the texts it passed to                       *)
(* insert_into_anagram_dictionary                                          *)

RECURSIVE load_dictionary(_, _, _)
load_dictionary(d, s, passed) ==
    IF ~(~eof(s) /\ good(s))
    THEN [dictionary |-> d, stream |-> s, passed |-> passed]
    ELSE LET e == extract(s)
         IN IF good(e.stream)
            THEN load_dictionary(insert_into_anagram_dictionary(d, e.text).dictionary,
                                 e.stream, passed \cup {e.text})
            ELSE load_dictionary(d, e.stream, passed)

-----------------------------------------------------------------------------
(* Spec: main's dictionary under any sequence of insert and fetch calls    *)

Init ==
    /\ dictionary = empty_dictionary
    /\ history = {}
    /\ inserted = FALSE
    /\ matches = nullopt
    /\ last = "init"
    /\ input_stream = stringstream(<<>>)
    /\ text_a = <<>>
    /\ text_b = <<>>
    /\ key_a = nullopt
    /\ key_b = nullopt
    /\ key_of_key = nullopt

\* The insert when fetch_matching_anagrams hands out a reference to the group
\* inside the dictionary: the group held in matches follows the insert
call_insert_aliased(text) ==
    /\ Cardinality(history \cup {text}) <= MaxTexts
    /\ LET r == insert_into_anagram_dictionary(dictionary, text)
       IN /\ dictionary' = r.dictionary
          /\ inserted' = r.inserted
          /\ matches' = IF matches.has_value
                           /\ \E k \in DOMAIN dictionary : dictionary[k] = matches.value
                        THEN optional(r.dictionary[CHOOSE k \in DOMAIN dictionary :
                                                       dictionary[k] = matches.value])
                        ELSE matches
    /\ history' = history \cup {text}
    /\ last' = "insert"
    /\ UNCHANGED <<input_stream, text_a, text_b, key_a, key_b, key_of_key>>

\* insert_into_anagram_dictionary(dictionary, text) called from main
call_insert(text) ==
    /\ Cardinality(history \cup {text}) <= MaxTexts
    /\ LET r == insert_into_anagram_dictionary(dictionary, text)
       IN /\ dictionary' = r.dictionary
          /\ inserted' = r.inserted
    /\ history' = history \cup {text}
    /\ last' = "insert"
    /\ UNCHANGED <<matches, input_stream, text_a, text_b, key_a, key_b, key_of_key>>

\* The lookup by dictionary[key]: a missed key gets an empty group
call_fetch_subscript(text) ==
    /\ LET key == compute_anagram(text)
       IN IF ~key.has_value
          THEN dictionary' = dictionary /\ matches' = nullopt
          ELSE /\ dictionary' = map_subscript(dictionary, key.value)
               /\ matches' = IF Len(map_subscript(dictionary, key.value)[key.value]) # 0
                             THEN optional(dictionary[key.value])
                             ELSE nullopt
    /\ last' = "fetch"
    /\ UNCHANGED <<history, inserted, input_stream,
                   text_a, text_b, key_a, key_b, key_of_key>>

\* matches = fetch_matching_anagrams(dictionary, text)
call_fetch(text) ==
    /\ matches' = fetch_matching_anagrams(dictionary, text)
    /\ last' = "fetch"
    /\ UNCHANGED <<dictionary, history, inserted, input_stream,
                   text_a, text_b, key_a, key_b, key_of_key>>

Next ==
    \/ \E text \in Words : call_insert(text)
    \/ \E text \in Words : call_fetch(text)

Spec == Init /\ [][Next]_vars

-----------------------------------------------------------------------------
(* SpecKey: compute_anagram applied to every pair of bounded texts, and    *)
(* again to the key it returned                                            *)

InitKey ==
    /\ dictionary = empty_dictionary
    /\ history = {}
    /\ inserted = FALSE
    /\ matches = nullopt
    /\ last = "init"
    /\ input_stream = stringstream(<<>>)
    /\ text_a \in Texts
    /\ text_b \in Texts
    /\ key_a = nullopt
    /\ key_b = nullopt
    /\ key_of_key = nullopt

call_compute_anagram ==
    /\ last = "init"
    /\ key_a' = compute_anagram(text_a)
    /\ key_b' = compute_anagram(text_b)
    /\ last' = "compute"
    /\ UNCHANGED <<dictionary, history, inserted, matches, input_stream,
                   text_a, text_b, key_of_key>>

call_compute_anagram_of_key ==
    /\ last = "compute"
    /\ key_a.has_value
    /\ key_of_key' = compute_anagram(key_a.value)
    /\ last' = "rekey"
    /\ UNCHANGED <<dictionary, history, inserted, matches, input_stream,
                   text_a, text_b, key_a, key_b>>

NextKey ==
    \/ call_compute_anagram
    \/ call_compute_anagram_of_key

SpecKey == InitKey /\ [][NextKey]_vars

-----------------------------------------------------------------------------
(* SpecLoad: load_dictionary on an empty dictionary, from a bounded stream *)
(* or from the seed stream                                                 *)

InitLoad ==
    /\ dictionary = empty_dictionary
    /\ history = {}
    /\ inserted = FALSE
    /\ matches = nullopt
    /\ last = "init"
    /\ input_stream \in {stringstream(content) : content \in Streams}
    /\ text_a = <<>>
    /\ text_b = <<>>
    /\ key_a = nullopt
    /\ key_b = nullopt
    /\ key_of_key = nullopt

\* load_dictionary(dictionary, input_stream)
call_load_dictionary_stream ==
    /\ last = "init"
    /\ LET r == load_dictionary(dictionary, input_stream, {})
       IN /\ dictionary' = r.dictionary
          /\ input_stream' = r.stream
          /\ history' = history \cup r.passed
    /\ last' = "load"
    /\ UNCHANGED <<inserted, matches, text_a, text_b, key_a, key_b, key_of_key>>

\* load_dictionary(dictionary): writes the seed words, rewinds, loads
call_load_dictionary ==
    /\ last = "init"
    /\ LET r == load_dictionary(dictionary, stringstream(seed_content), {})
       IN /\ dictionary' = r.dictionary
          /\ input_stream' = r.stream
          /\ history' = history \cup r.passed
    /\ last' = "seed"
    /\ UNCHANGED <<inserted, matches, text_a, text_b, key_a, key_b, key_of_key>>

NextLoad ==
    \/ call_load_dictionary_stream
    \/ call_load_dictionary

SpecLoad == InitLoad /\ [][NextLoad]_vars

-----------------------------------------------------------------------------
(* The vocabulary of the properties, stated without the operators above    *)

AlnumCodes == (48..57) \cup (65..90) \cup (97..122)

Folded(c) == IF c \in 65..90 THEN c + 32 ELSE c

HasAlnum(t) == \E i \in 1..Len(t) : t[i] \in AlnumCodes

\* How often the character c remains in t after discarding and folding
Occurrences(t, c) ==
    Cardinality({i \in 1..Len(t) : t[i] \in AlnumCodes /\ Folded(t[i]) = c})

SameMultiset(a, b) ==
    \A c \in {Folded(x) : x \in (Range(a) \cup Range(b)) \cap AlnumCodes} :
        Occurrences(a, c) = Occurrences(b, c)

\* The text t is stored verbatim in some group of d
Stored(d, t) == \E k \in DOMAIN d : t \in Range(d[k])

\* How often the text t occurs in the group
Count(group, t) == Cardinality({i \in 1..Len(group) : group[i] = t})

\* content[i..j] is a whitespace-separated token of the content
IsToken(content, i, j) ==
    /\ i <= j
    /\ \A n \in i..j : ~(content[n] \in 9..13 \/ content[n] = 32)
    /\ i = 1 \/ (content[i - 1] \in 9..13 \/ content[i - 1] = 32)
    /\ j = Len(content) \/ (content[j + 1] \in 9..13 \/ content[j + 1] = 32)

-----------------------------------------------------------------------------
(* C1: compute_anagram returns the same result for two texts exactly when  *)
(* their alphanumeric characters, folded to lower case, form the same      *)
(* multiset, and it returns nullopt exactly when the text has no           *)
(* alphanumeric character.                                                 *)
C1_KeyEqualIffSameMultiset ==
    last # "init" =>
        /\ (key_a = key_b) <=> SameMultiset(text_a, text_b)
        /\ (key_a = nullopt) <=> ~HasAlnum(text_a)
        /\ (key_b = nullopt) <=> ~HasAlnum(text_b)

\* "#aB" and "b#a": two texts of different spelling and case with one key
C1_Witness ==
    /\ last = "compute"
    /\ text_a = <<35, 97, 66>>
    /\ text_b = <<98, 35, 97>>
    /\ key_a = optional(<<97, 98>>)
    /\ key_b = key_a

(* C2: after any sequence of inserts, a lookup returns nullopt when the    *)
(* query has no alphanumeric character or no inserted text has its key,    *)
(* and otherwise exactly the distinct inserted texts that are anagrams of  *)
(* the query, in their original form.                                      *)
C2_FetchReturnsInsertedAnagrams ==
    \A q \in Words :
        LET r == fetch_matching_anagrams(dictionary, q)
            expected == {t \in history : HasAlnum(t) /\ SameMultiset(t, q)}
        IN IF ~HasAlnum(q) \/ expected = {}
           THEN r = nullopt
           ELSE /\ r.has_value
                /\ Range(r.value) = expected
                /\ Len(r.value) = Cardinality(expected)

\* After "Kayak" and "kayak" a lookup returned both original forms
C2_Witness ==
    /\ last = "fetch"
    /\ history = {Kayak, kayak}
    /\ matches = optional(<<Kayak, kayak>>)

(* C3: an insert of a text with a usable key returns true exactly when the *)
(* text is not yet stored in the group of its key; inserting the same text *)
(* again returns false, changes nothing, and the group holds it once.      *)
C3_InsertTrueIffNew ==
    \A t \in Words :
        HasAlnum(t) =>
            LET k == compute_anagram(t).value
                first == insert_into_anagram_dictionary(dictionary, t)
                second == insert_into_anagram_dictionary(first.dictionary, t)
            IN /\ first.inserted <=> ~(k \in DOMAIN dictionary /\ t \in Range(dictionary[k]))
               /\ ~second.inserted
               /\ second.dictionary = first.dictionary
               /\ Count(second.dictionary[k], t) = 1

\* "Kayak" inserted twice into the empty dictionary: the second call
\* returned false and the group is the one entry
C3_Witness ==
    /\ last = "insert"
    /\ history = {Kayak}
    /\ ~inserted
    /\ dictionary = (<<97, 97, 107, 107, 121>> :> <<Kayak>>)

(* C4: an insert of a text with no alphanumeric character returns false    *)
(* and leaves the dictionary as it was: no key added, no group created or  *)
(* changed.                                                                *)
C4_UnusableInsertRefused ==
    [][\A t \in Words :
          (~HasAlnum(t) /\ history' = history \cup {t} /\ call_insert(t)) =>
              (~inserted' /\ dictionary' = dictionary)]_vars

\* "###" was the one text passed to insert: the call returned false and the
\* dictionary has no key
C4_Witness ==
    /\ last = "insert"
    /\ history = {hashes}
    /\ ~inserted
    /\ DOMAIN dictionary = {}

(* C5: every key present in the dictionary maps to a non-empty group.      *)
C5_NoEmptyGroup ==
    \A k \in DOMAIN dictionary : Len(dictionary[k]) > 0

\* A lookup missed after usable, unusable and duplicate-key inserts
C5_Witness ==
    /\ last = "fetch"
    /\ ~matches.has_value
    /\ hashes \in history
    /\ Cardinality(DOMAIN dictionary) >= 2
    /\ \E k \in DOMAIN dictionary : Len(dictionary[k]) >= 2

(* C6: a lookup leaves the dictionary as it was, whether it matches,       *)
(* misses or has an unusable query.                                        *)
C6_FetchReadOnly ==
    [][last' = "fetch" => dictionary' = dictionary]_vars

\* A lookup missed on a dictionary that holds other keys
C6_Witness ==
    /\ last = "fetch"
    /\ ~matches.has_value
    /\ DOMAIN dictionary # {}
    /\ unknown \notin history

(* C7: an insert that returns true either adds the key of the text with    *)
(* the group of that one text, or grows the existing group of the key by   *)
(* that one text; every other key and group is unchanged.                  *)
C7_InsertGrowsByOne ==
    [][\A t \in Words :
          (inserted' /\ history' = history \cup {t} /\ call_insert(t)) =>
              LET k == compute_anagram(t).value
              IN /\ k \in DOMAIN dictionary'
                 /\ IF k \in DOMAIN dictionary
                    THEN /\ t \notin Range(dictionary[k])
                         /\ Range(dictionary'[k]) = Range(dictionary[k]) \cup {t}
                         /\ Len(dictionary'[k]) = Len(dictionary[k]) + 1
                    ELSE dictionary'[k] = <<t>>
                 /\ DOMAIN dictionary' = DOMAIN dictionary \cup {k}
                 /\ \A j \in DOMAIN dictionary \ {k} : dictionary'[j] = dictionary[j]]_vars

\* An insert returned true and grew an existing group beside another key
C7_Witness ==
    /\ last = "insert"
    /\ inserted
    /\ Cardinality(DOMAIN dictionary) >= 2
    /\ \E k \in DOMAIN dictionary : Len(dictionary[k]) >= 2

(* C8: the group a lookup returned stays as returned through every later   *)
(* insert, also an insert into the group of the same key.                  *)
C8_FetchedGroupIsSnapshot ==
    [][last' = "insert" => matches' = matches]_vars

\* The group returned earlier is smaller than the group now stored
C8_Witness ==
    /\ last = "insert"
    /\ matches.has_value
    /\ \E k \in DOMAIN dictionary :
           /\ Range(matches.value) \subseteq Range(dictionary[k])
           /\ Len(matches.value) < Len(dictionary[k])

(* C9: compute_anagram applied to a key it returned returns that key.      *)
C9_KeyIdempotent ==
    last = "rekey" => key_of_key = key_a

\* The key of "B1a" was computed again
C9_Witness ==
    /\ last = "rekey"
    /\ text_a = <<66, 49, 97>>
    /\ key_a = optional(<<49, 97, 98>>)
    /\ key_of_key = key_a

(* C10: load_dictionary inserts every whitespace-separated token of the    *)
(* stream, the last one also when no whitespace follows it; after the seed *)
(* load on an empty dictionary "bob", "god", "act" and "dog" are stored.   *)
C10_LoadInsertsEveryToken ==
    /\ last \in {"load", "seed"} =>
           \A i, j \in 1..Len(input_stream.content) :
               IsToken(input_stream.content, i, j) =>
                   LET tok == SubSeq(input_stream.content, i, j)
                   IN /\ tok \in history
                      /\ HasAlnum(tok) => Stored(dictionary, tok)
    /\ last = "seed" => \A w \in {bob, god, act, dog} : Stored(dictionary, w)

====
